---- MODULE Spec2Model ----
(***************************************************************************)
(* The ingestion pipeline of the procurement data service: the streaming   *)
(* importer (importCSVFile, insertBatch, updateMetadata), the storage       *)
(* schema it writes to (procurement_invoices, dataset_metadata) and        *)
(* clearInvoiceData; the catalog client (filterProcurementResources,       *)
(* extractYearFromFilename, downloadAllProcurementFiles); and a run of the  *)
(* updater (updateProcurementData, importAllFiles).                         *)
(*                                                                         *)
(* Spec, SpecWide and SpecFields are imports of files one after another;   *)
(* SpecRun and SpecRunNoYear are runs of the updater one after another     *)
(* over one database and one download directory, the latter over a catalog *)
(* with a data file whose name has no year; SpecYear, SpecDelimiter,       *)
(* SpecCatalog and SpecTransform each call one function on inputs drawn    *)
(* from bounded sets.                                                      *)
(*                                                                         *)
(* JavaScript values are tagged records, so that values of different       *)
(* JavaScript types can be compared: Str, Chars (a string given by its     *)
(* characters, where the code looks inside the string), Num, NaN, Null and *)
(* Undefined.  A table is a bag (multiset) of rows; the surrogate key `id`  *)
(* and the timestamp columns, which no modelled statement reads, are left   *)
(* out of the rows.                                                        *)
(***************************************************************************)
EXTENDS Integers, Sequences, FiniteSets, Bags, TLC

----------------------------------------------------------------------------
(* Bounds of the model *)

\* The batch size: `records.length >= 1000` / `records.splice(0, 1000)` in the
\* source, scaled down so that batch boundaries are reached by short files.
BatchSize == 2

\* The largest number of records the parser delivers for one file.
MaxFileLen == 3

\* The bytes detectDelimiter reads from the start of the file: 1024 in the
\* source, scaled down.
BufferSize == 3

\* The most characters of a file's start, of a filename and of a catalog's
\* list of resources that the inputs of the pure functions are drawn with.
MaxHeadLen == 4
MaxNameLen == 5
MaxCatalogLen == 3

\* The most records of a file that is imported by a run of the updater.
MaxRunFileLen == 1

----------------------------------------------------------------------------
(* JavaScript values *)

Str(s) == [str |-> s]
Chars(cs) == [chars |-> cs]
Num(n) == [num |-> n, exp |-> 0]
Dec(m, k) == [num |-> m, exp |-> k]
NaN == [nan |-> TRUE]
Null == [null |-> TRUE]
Undefined == [undefined |-> TRUE]
Arr(elements) == [array |-> elements]

\* ToBoolean: '', 0, NaN, null and undefined are falsy.
Truthy(v) ==
    IF "str" \in DOMAIN v THEN v.str # ""
    ELSE IF "chars" \in DOMAIN v THEN v.chars # <<>>
    ELSE IF "num" \in DOMAIN v THEN v.num # 0
    ELSE FALSE

\* a || b
JsOr(a, b) == IF Truthy(a) THEN a ELSE b

Digit == {"0", "1", "2", "3", "4", "5", "6", "7", "8", "9"}

DigitVal(c) ==
    CASE c = "0" -> 0 [] c = "1" -> 1 [] c = "2" -> 2 [] c = "3" -> 3
      [] c = "4" -> 4 [] c = "5" -> 5 [] c = "6" -> 6 [] c = "7" -> 7
      [] c = "8" -> 8 [] c = "9" -> 9

\* The value of a sequence of decimal digits (0 for the empty sequence).
RECURSIVE DigitsValue(_)
DigitsValue(ds) ==
    IF ds = <<>> THEN 0
    ELSE 10 * DigitsValue(SubSeq(ds, 1, Len(ds) - 1)) + DigitVal(ds[Len(ds)])

\* The index after the longest run of digits of s that starts at index i.
RECURSIVE DigitRunEnd(_, _)
DigitRunEnd(s, i) ==
    IF i <= Len(s) /\ s[i] \in Digit THEN DigitRunEnd(s, i + 1) ELSE i

\* A decimal m * 10^-k without trailing zeros in its fraction.
RECURSIVE Normalize(_, _)
Normalize(m, k) ==
    IF k > 0 /\ m % 10 = 0 THEN Normalize(m \div 10, k - 1) ELSE Dec(m, k)

\* parseFloat of a string given by its characters: the longest prefix that is
\* a decimal literal (sign, digits, '.', digits), NaN when there is none.
\* Strings handed to it are already trimmed by the parser (trim: true).
\* Exponents and 'Infinity' are outside the alphabet of the modelled inputs.
parseFloat(v) ==
    LET s == v.chars
        signed == Len(s) >= 1 /\ s[1] \in {"+", "-"}
        neg == signed /\ s[1] = "-"
        i0 == IF signed THEN 2 ELSE 1
        i1 == DigitRunEnd(s, i0)
        hasDot == i1 <= Len(s) /\ s[i1] = "."
        i2 == IF hasDot THEN DigitRunEnd(s, i1 + 1) ELSE i1
        intDigits == SubSeq(s, i0, i1 - 1)
        fracDigits == IF hasDot THEN SubSeq(s, i1 + 1, i2 - 1) ELSE <<>>
        m == DigitsValue(intDigits \o fracDigits)
    IN  IF intDigits = <<>> /\ fracDigits = <<>> THEN NaN
        ELSE Normalize(IF neg THEN 0 - m ELSE m, Len(fracDigits))

\* The least index at which four consecutive digits start, 0 when none.
RECURSIVE FourDigitsAt(_, _)
FourDigitsAt(s, i) ==
    IF i + 3 > Len(s) THEN 0
    ELSE IF \A j \in i..(i + 3) : s[j] \in Digit THEN i
    ELSE FourDigitsAt(s, i + 1)

\* filename.match(/(\d{4})/), then parseInt of the match or null.
extractYearFromFilename(filename) ==
    LET i == FourDigitsAt(filename.chars, 1)
    IN  IF i = 0 THEN Null
        ELSE Num(DigitsValue(SubSeq(filename.chars, i, i + 3)))

----------------------------------------------------------------------------
(* Strings given by their characters *)

UpperCase ==
    <<"A", "B", "C", "D", "E", "F", "G", "H", "I", "J", "K", "L", "M",
      "N", "O", "P", "Q", "R", "S", "T", "U", "V", "W", "X", "Y", "Z">>

LowerCase ==
    <<"a", "b", "c", "d", "e", "f", "g", "h", "i", "j", "k", "l", "m",
      "n", "o", "p", "q", "r", "s", "t", "u", "v", "w", "x", "y", "z">>

\* String.prototype.toLowerCase
toLowerCase(v) ==
    LET low(c) == IF \E i \in 1..Len(UpperCase) : UpperCase[i] = c
                  THEN LowerCase[CHOOSE i \in 1..Len(UpperCase) : UpperCase[i] = c]
                  ELSE c
    IN  Chars([i \in 1..Len(v.chars) |-> low(v.chars[i])])

\* String.prototype.startsWith, endsWith and includes
startsWith(v, cs) ==
    Len(cs) <= Len(v.chars) /\ SubSeq(v.chars, 1, Len(cs)) = cs

endsWith(v, cs) ==
    /\ Len(cs) <= Len(v.chars)
    /\ SubSeq(v.chars, Len(v.chars) - Len(cs) + 1, Len(v.chars)) = cs

includes(v, cs) ==
    \E i \in 1..(Len(v.chars) - Len(cs) + 1) :
        SubSeq(v.chars, i, i + Len(cs) - 1) = cs

\* The operand of a subtraction as a number: null counts as 0.
ToNumber(v) == IF v = Null THEN 0 ELSE v.num

\* String.prototype.trim, for the blank character
RECURSIVE trim(_)
trim(cs) ==
    IF cs # <<>> /\ Head(cs) = " " THEN trim(Tail(cs))
    ELSE IF cs # <<>> /\ cs[Len(cs)] = " " THEN trim(SubSeq(cs, 1, Len(cs) - 1))
    ELSE cs

\* parseInt of a string given by its characters: leading blanks, a sign and
\* the longest run of decimal digits; NaN when there is no digit.
parseInt(cs) ==
    LET s == trim(cs)
        signed == Len(s) >= 1 /\ s[1] \in {"+", "-"}
        i0 == IF signed THEN 2 ELSE 1
        i1 == DigitRunEnd(s, i0)
        n == DigitsValue(SubSeq(s, i0, i1 - 1))
    IN  IF i1 = i0 THEN NaN
        ELSE Num(IF signed /\ s[1] = "-" THEN 0 - n ELSE n)

\* String.prototype.split(','): the pieces between the commas
RECURSIVE SplitComma(_)
SplitComma(cs) ==
    IF \E i \in 1..Len(cs) : cs[i] = ","
    THEN LET i == CHOOSE i \in 1..Len(cs) :
                      cs[i] = "," /\ \A j \in 1..(i - 1) : cs[j] # ","
         IN  <<SubSeq(cs, 1, i - 1)>> \o SplitComma(SubSeq(cs, i + 1, Len(cs)))
    ELSE <<cs>>

\* options.years of the command line: null without a --years= argument,
\* else the pieces of its value, trimmed and parsed.
ParseYears(yearArg) ==
    IF yearArg = Undefined THEN Null
    ELSE LET pieces == SplitComma(yearArg.chars)
         IN  Arr([i \in 1..Len(pieces) |-> parseInt(trim(pieces[i]))])

----------------------------------------------------------------------------
(* The catalog client: filterProcurementResources and the year filter *)

\* The predicate of dataset.resources.filter(...)
IsProcurementResource(res) ==
    LET name == toLowerCase(res.name)
        format == toLowerCase(res.format)
        isDataFile ==
            /\ startsWith(name, <<"t", "h", "_", "d", "a", "t", "a", "_">>)
            /\ \/ format = Chars(<<"c", "s", "v">>)
               \/ format = Chars(<<"t", "s", "v">>)
               \/ endsWith(name, <<".", "c", "s", "v">>)
               \/ endsWith(name, <<".", "t", "s", "v">>)
        isNotTranslation ==
            /\ ~includes(name, <<"k", "a", "a", "n", "n", "o", "k", "s", "e", "t">>)
            /\ ~includes(name, <<"t", "r", "a", "n", "s", "l", "a", "t", "i", "o", "n">>)
    IN  isDataFile /\ isNotTranslation

\* Mutant: a comparator that puts the oldest first.
CompareYearsAscending(a, b) ==
    ToNumber(extractYearFromFilename(a.name)) - ToNumber(extractYearFromFilename(b.name))

\* The comparator of resources.sort(...): yearB - yearA
CompareYears(a, b) ==
    ToNumber(extractYearFromFilename(b.name)) - ToNumber(extractYearFromFilename(a.name))

\* One element put into a sorted sequence, after the elements it does not
\* have to precede.
RECURSIVE InsertSorted(_, _)
InsertSorted(sorted, x) ==
    IF sorted = <<>> THEN <<x>>
    ELSE IF CompareYears(Head(sorted), x) > 0 THEN <<x>> \o sorted
    ELSE <<Head(sorted)>> \o InsertSorted(Tail(sorted), x)

\* Array.prototype.sort with the comparator: a stable sort.
RECURSIVE SortByYear(_)
SortByYear(resources) ==
    IF resources = <<>> THEN <<>>
    ELSE InsertSorted(SortByYear(SubSeq(resources, 1, Len(resources) - 1)),
                      resources[Len(resources)])

\* Mutant: a filter that keeps the translation files.
FilterKeepsTranslations(resources) ==
    SelectSeq(resources,
              LAMBDA res : startsWith(toLowerCase(res.name),
                                      <<"t", "h", "_", "d", "a", "t", "a", "_">>))

\* dataset.resources.filter(...)
FilterResources(resources) == SelectSeq(resources, IsProcurementResource)

\* filterProcurementResources(dataset)
filterProcurementResources(dataset) == SortByYear(FilterResources(dataset.resources))

\* Mutant: a year filter that lets resources without a year through.
SelectByYearsOrNoYear(resources, yearsToDownload) ==
    IF yearsToDownload # Null /\ Len(yearsToDownload.array) > 0
    THEN SelectSeq(resources,
                   LAMBDA r : LET year == extractYearFromFilename(r.name)
                              IN  year = Null
                                  \/ \E i \in 1..Len(yearsToDownload.array) :
                                        yearsToDownload.array[i] = year)
    ELSE resources

\* resourcesToDownload of downloadAllProcurementFiles
SelectByYears(resources, yearsToDownload) ==
    IF yearsToDownload # Null /\ Len(yearsToDownload.array) > 0
    THEN SelectSeq(resources,
                   LAMBDA r : LET year == extractYearFromFilename(r.name)
                              IN  \E i \in 1..Len(yearsToDownload.array) :
                                      yearsToDownload.array[i] = year)
    ELSE resources

----------------------------------------------------------------------------
(* The storage schema and INSERT OR REPLACE *)

InvoiceNotNull ==
    {"lasku_id", "hankintayksikko", "hankintakategoria", "tositepvm",
     "tiliointisumma", "data_year"}

\* Mutant: the schema without UNIQUE on lasku_id.
InvoiceUniqueNone == {}

InvoiceUnique == {"lasku_id"}

LedgerNotNull == {"resource_id", "resource_name", "resource_url"}

LedgerUnique == {"resource_id"}

\* What SQLite stores for a bound parameter: a NaN double is stored as NULL.
Bind(v) == IF v = NaN THEN Null ELSE v

\* One INSERT OR REPLACE: a NULL in a NOT NULL column without default aborts
\* the statement (ok = FALSE, the statement throws); otherwise the rows that
\* collide with the new row on a UNIQUE column are deleted and the row is
\* inserted.
InsertOrReplace(table, params, notNull, unique) ==
    LET row == [c \in DOMAIN params |-> Bind(params[c])]
        keep == {t \in BagToSet(table) : ~\E c \in unique : t[c] = row[c]}
    IN  IF \E c \in notNull : row[c] = Null
        THEN [ok |-> FALSE, table |-> table]
        ELSE [ok |-> TRUE,
              table |-> [t \in keep |-> table[t]] (+) SetToBag({row})]

\* Mutant: an upsert that updates the amount of the row it finds and keeps
\* the row's other fields.
InsertRunMerge(table, invoice) ==
    LET row == [c \in DOMAIN invoice |-> Bind(invoice[c])]
        old == {t \in BagToSet(table) : t.lasku_id = row.lasku_id}
    IN  IF \E c \in InvoiceNotNull : row[c] = Null
        THEN [ok |-> FALSE, table |-> table]
        ELSE IF old = {}
        THEN [ok |-> TRUE, table |-> table (+) SetToBag({row})]
        ELSE [ok |-> TRUE,
              table |-> SetToBag({[t EXCEPT !.tiliointisumma = row.tiliointisumma] :
                                     t \in old})
                        (+) [t \in BagToSet(table) \ old |-> table[t]]]

\* insert.run(invoice)
InsertRun(table, invoice) ==
    InsertOrReplace(table, invoice, InvoiceNotNull, InvoiceUnique)

\* The body of insertMany: the inserts in order, up to the first that throws.
RECURSIVE InsertLoop(_, _)
InsertLoop(table, invoices) ==
    IF invoices = <<>> THEN [ok |-> TRUE, table |-> table]
    ELSE LET r == InsertRun(table, Head(invoices))
         IN  IF r.ok THEN InsertLoop(r.table, Tail(invoices))
             ELSE [ok |-> FALSE, table |-> r.table]

\* Mutant: the inserts of a batch outside a transaction.
TransactionNoRollback(table, invoices) == InsertLoop(table, invoices)

\* db.transaction(fn)(invoices): BEGIN, the body, COMMIT; when the body
\* throws, ROLLBACK to the table as it was at BEGIN and rethrow.
Transaction(table, invoices) ==
    LET r == InsertLoop(table, invoices)
    IN  IF r.ok THEN r ELSE [ok |-> FALSE, table |-> table]

\* insertBatch(records): ok = FALSE when it throws.
insertBatch(table, batch) == Transaction(table, batch)

\* updateMetadata's statement: INSERT OR REPLACE INTO dataset_metadata.
LedgerRun(table, params) ==
    InsertOrReplace(table, params, LedgerNotNull, LedgerUnique)

----------------------------------------------------------------------------
(* The inputs: catalog resources and parsed CSV records *)

ThData == <<"t", "h", "_", "d", "a", "t", "a", "_">>
DotCsv == <<".", "c", "s", "v">>
DotTsv == <<".", "t", "s", "v">>

Res2023 ==
    [id |-> Str("res-2023"), name |-> Chars(ThData \o <<"2", "0", "2", "3">> \o DotCsv),
     url |-> Str("https://catalog/2023"), format |-> Str("CSV"),
     last_modified |-> Str("2024-01-01")]

Res2024 ==
    [id |-> Str("res-2024"), name |-> Chars(ThData \o <<"2", "0", "2", "4">> \o DotTsv),
     url |-> Str("https://catalog/2024"), format |-> Str("TSV"),
     last_modified |-> Str("2025-01-01")]

\* A data file whose name carries no year.
ResNoYear ==
    [id |-> Str("res-new"), name |-> Chars(ThData \o <<"n", "e", "w">> \o DotCsv),
     url |-> Str("https://catalog/new"), format |-> Str("csv"),
     last_modified |-> Null]

\* Invoice A under the primary-language column names, with a year-like
\* column of its own.
RecA1 ==
    [lasku_id |-> Str("A"), hankintayksikko |-> Str("U1"),
     hankintakategoria |-> Str("K1"), tositepvm |-> Str("2023-01-05"),
     tiliointisumma |-> Chars(<<"1", "0">>), toimittaja_nimi |-> Str("S1"),
     data_year |-> Str("1999")]

\* Invoice A again, under the alias column names, with another amount.
RecA2 ==
    [invoice_id |-> Str("A"), procurement_unit |-> Str("U2"),
     procurement_category |-> Str("K2"), invoice_entry_date |-> Str("2023-02-01"),
     posting_sum |-> Chars(<<"-", "2", "0", ".", "5", "0">>),
     supplier_name |-> Str("S2"), sector |-> Str("X")]

\* Invoice B: the primary identifier column is empty, the alias is not; no
\* amount column.
RecB ==
    [lasku_id |-> Str(""), invoice_id |-> Str("B"), hankintayksikko |-> Str("U1"),
     hankintakategoria |-> Str("K1"), tositepvm |-> Str("2023-03-01")]

\* Invoice C: all required fields, an amount that is no number.
RecC ==
    [lasku_id |-> Str("C"), hankintayksikko |-> Str("U1"),
     hankintakategoria |-> Str("K1"), tositepvm |-> Str("2023-04-01"),
     tiliointisumma |-> Chars(<<"n", "/", "a">>)]

\* Records that lack one required field each: no identifier column at all,
\* an empty unit, a category under neither name, an empty posting date.
RecNoId ==
    [hankintayksikko |-> Str("U1"), hankintakategoria |-> Str("K1"),
     tositepvm |-> Str("2023-05-01"), tiliointisumma |-> Chars(<<"5">>)]

RecNoUnit ==
    [lasku_id |-> Str("D"), hankintayksikko |-> Str(""),
     procurement_unit |-> Str(""), hankintakategoria |-> Str("K1"),
     tositepvm |-> Str("2023-05-01"), tiliointisumma |-> Chars(<<"5">>)]

RecNoCategory ==
    [lasku_id |-> Str("D"), hankintayksikko |-> Str("U1"),
     tositepvm |-> Str("2023-05-01"), tiliointisumma |-> Chars(<<"5">>)]

RecNoDate ==
    [lasku_id |-> Str("D"), hankintayksikko |-> Str("U1"),
     hankintakategoria |-> Str("K1"), tositepvm |-> Str(""),
     tiliointisumma |-> Chars(<<"5">>)]

\* The inputs of Spec: one identifier under two records, two data years.
Resources == {Res2023, Res2024}
CsvRecords == {RecA1, RecA2, RecC, RecNoDate}

\* The inputs of SpecWide: several identifiers, a resource without year.
WideResources == {Res2023, ResNoYear}
WideRecords == {RecA1, RecB, RecC}

\* The inputs of SpecFields: every way of lacking a required field.
FieldResources == {Res2023}
FieldRecords == {RecB, RecNoId, RecNoUnit, RecNoCategory, RecNoDate}

AllResources == Resources \cup WideResources \cup FieldResources
AllRecords == CsvRecords \cup WideRecords \cup FieldRecords

ParserErrors == {"CsvError"}

\* Resources of a catalog: data files, translation files, other files.
CatalogResource(id, name, format) ==
    [id |-> Str(id), name |-> Chars(name), url |-> Str("https://catalog/" \o id),
     format |-> Chars(format), last_modified |-> Str("2025-01-01")]

Kaannokset == <<"_", "k", "a", "a", "n", "n", "o", "k", "s", "e", "t">>

Cat2023 == CatalogResource("c-2023", ThData \o <<"2", "0", "2", "3">> \o DotCsv, <<"C", "S", "V">>)
Cat2024 == CatalogResource("c-2024", ThData \o <<"2", "0", "2", "4">> \o DotTsv, <<"T", "S", "V">>)
Cat2023Again ==
    CatalogResource("c-2023b", ThData \o <<"2", "0", "2", "3">> \o <<"_", "b">> \o DotCsv,
                    <<"c", "s", "v">>)
CatKaannokset ==
    CatalogResource("c-kaan", ThData \o <<"2", "0", "2", "3">> \o Kaannokset \o DotCsv,
                    <<"C", "S", "V">>)
CatTranslation ==
    CatalogResource("c-tran",
                    ThData \o <<"T", "r", "a", "n", "s", "l", "a", "t", "i", "o", "n">> \o DotCsv,
                    <<"C", "S", "V">>)
CatUpperName ==
    CatalogResource("c-upper",
                    <<"T", "H", "_", "D", "A", "T", "A", "_", "2", "0", "2", "2", ".", "T", "S", "V">>,
                    <<"d", "a", "t", "a">>)
CatNoYear == CatalogResource("c-new", ThData \o <<"n", "e", "w">>, <<"C", "s", "v">>)
CatSheet ==
    CatalogResource("c-xlsx", ThData \o <<"2", "0", "2", "4">> \o <<".", "x", "l", "s", "x">>,
                    <<"X", "L", "S", "X">>)
CatReadme == CatalogResource("c-readme", <<"r", "e", "a", "d", "m", "e">> \o DotCsv, <<"C", "S", "V">>)
CatYearZero == CatalogResource("c-0000", ThData \o <<"0", "0", "0", "0">> \o DotCsv, <<"C", "S", "V">>)

CatalogResources ==
    {Cat2023, Cat2024, Cat2023Again, CatKaannokset, CatTranslation, CatUpperName,
     CatNoYear, CatSheet, CatReadme, CatYearZero}

\* Values of the --years= argument, also with a blank, an empty value and a
\* value that is no number.
Arg2024 == Chars(<<"2", "0", "2", "4">>)
Arg2023And2024 == Chars(<<"2", "0", "2", "3", ",", " ", "2", "0", "2", "4">>)
ArgEmpty == Chars(<<>>)
ArgNoNumber == Chars(<<"a", "l", "l">>)
CatalogYearArgs == {Undefined, Arg2024, Arg2023And2024, ArgEmpty, ArgNoNumber}

\* The characters the start of a file is drawn from, the declared formats,
\* and the characters of the filenames handed to extractYearFromFilename.
HeadChars == {";", ",", "\n", "a"}
DeclaredFormats == {<<"c", "s", "v">>, <<"t", "s", "v">>, <<"T", "S", "V">>, <<"T", "s", "v">>}
NameChars == {"1", "2", "_"}

\* The inputs of the runs of the updater: the catalog, the values of the
\* --years= argument, the records of the files, the sizes of the files and
\* the errors of the network.
Catalog == [resources |-> <<Cat2023, CatKaannokset, Cat2024>>]
YearArgs == {Undefined, Chars(<<"2", "0", "2", "4">>)}
RunRecords == {RecA1, RecB, RecC}
FileSizes == {1, 2}
FetchErrors == {"CKAN API error"}
DownloadErrors == {"Download failed"}

\* The inputs of SpecTransform.  The canonical fields the transformation
\* reads from the record, each with its primary column, its alias column
\* and its kind: required (checked by the validation), amount (parsed) or
\* optional.
Canonical(field, primary, alias, kind) ==
    [field |-> field, primary |-> primary, alias |-> alias, kind |-> kind]

CanonicalFields ==
    {Canonical("lasku_id", "lasku_id", "invoice_id", "required"),
     Canonical("hankintayksikko", "hankintayksikko", "procurement_unit", "required"),
     Canonical("hankintayksikko_tunnus", "hankintayksikko_tunnus",
               "procurement_unit_id", "optional"),
     Canonical("ylaorganisaatio", "ylaorganisaatio", "parent_organization", "optional"),
     Canonical("ylaorganisaatio_tunnus", "ylaorganisaatio_tunnus",
               "parent_organization_id", "optional"),
     Canonical("toimittaja_y_tunnus", "toimittaja_y_tunnus",
               "supplier_business_id", "optional"),
     Canonical("toimittaja_nimi", "toimittaja_nimi", "supplier_name", "optional"),
     Canonical("toimittaja_kunta", "toimittaja_kunta", "supplier_city", "optional"),
     Canonical("tili", "tili", "account", "optional"),
     Canonical("hankintakategoria", "hankintakategoria", "procurement_category",
               "required"),
     Canonical("tuote_palveluryhma", "tuote_palveluryhma", "product_service_group",
               "optional"),
     Canonical("tositepvm", "tositepvm", "invoice_entry_date", "required"),
     Canonical("tiliointisumma", "tiliointisumma", "posting_sum", "amount"),
     Canonical("sektori", "sektori", "sector", "optional")}

\* What the parser delivers for a column: nothing (the record has no such
\* column), the empty string, or a text.
Cells == {"absent", "empty", "text"}

\* The record with the four required fields under their primary columns.
BaseRecord ==
    [lasku_id |-> Str("A"), hankintayksikko |-> Str("U1"),
     hankintakategoria |-> Str("K1"), tositepvm |-> Str("2023-01-05")]

\* BaseRecord with the two columns of a canonical field as given: the
\* texts of the primary and of the alias column differ.
RecordWith(f, primaryCell, aliasCell) ==
    LET cell == [c \in {f.primary, f.alias} |->
                    IF c = f.primary THEN primaryCell ELSE aliasCell]
        others == DOMAIN BaseRecord \ {f.primary, f.alias}
        given == {c \in {f.primary, f.alias} : cell[c] # "absent"}
    IN  [c \in others \cup given |->
            IF c \in others THEN BaseRecord[c]
            ELSE IF f.kind = "amount"
                 THEN IF cell[c] = "empty" THEN Chars(<<>>)
                      ELSE IF c = f.primary THEN Chars(<<"1", "0">>)
                      ELSE Chars(<<"-", "2", "0", ".", "5">>)
            ELSE IF cell[c] = "empty" THEN Str("")
                 ELSE IF c = f.primary THEN Str("primary") ELSE Str("alias")]

TransformRecords ==
    {RecordWith(f, primaryCell, aliasCell) :
        f \in CanonicalFields, primaryCell \in Cells, aliasCell \in Cells}

\* The inputs of SpecRunNoYear: a catalog with a data file whose name has
\* no year, and records that can all be stored.
CatalogNoYear == [resources |-> <<CatNoYear, Cat2024>>]
NoYearRecords == {RecA1, RecB}

----------------------------------------------------------------------------
(* importCSVFile *)

\* record.<column>: undefined when the record has no such column.
Field(record, column) ==
    IF column \in DOMAIN record THEN record[column] ELSE Undefined

\* Mutant: a lookup that tries the alias column first.
ResolveAliasFirst(record, primary, alias, default) ==
    JsOr(JsOr(Field(record, alias), Field(record, primary)), default)

\* record.<primary> || record.<alias> || default
Resolve(record, primary, alias, default) ==
    JsOr(JsOr(Field(record, primary), Field(record, alias)), default)

\* Mutant: a transformation that keeps the year column of the record when
\* the record has one.
ToInvoiceRowYear(record, year) ==
    [lasku_id |-> Resolve(record, "lasku_id", "invoice_id", Str("")),
     hankintayksikko |-> Resolve(record, "hankintayksikko", "procurement_unit", Str("")),
     hankintayksikko_tunnus |->
         Resolve(record, "hankintayksikko_tunnus", "procurement_unit_id", Null),
     ylaorganisaatio |-> Resolve(record, "ylaorganisaatio", "parent_organization", Null),
     ylaorganisaatio_tunnus |->
         Resolve(record, "ylaorganisaatio_tunnus", "parent_organization_id", Null),
     toimittaja_y_tunnus |->
         Resolve(record, "toimittaja_y_tunnus", "supplier_business_id", Null),
     toimittaja_nimi |-> Resolve(record, "toimittaja_nimi", "supplier_name", Null),
     toimittaja_kunta |-> Resolve(record, "toimittaja_kunta", "supplier_city", Null),
     tili |-> Resolve(record, "tili", "account", Null),
     hankintakategoria |->
         Resolve(record, "hankintakategoria", "procurement_category", Str("")),
     tuote_palveluryhma |->
         Resolve(record, "tuote_palveluryhma", "product_service_group", Null),
     tositepvm |-> Resolve(record, "tositepvm", "invoice_entry_date", Str("")),
     tiliointisumma |->
         parseFloat(Resolve(record, "tiliointisumma", "posting_sum", Chars(<<"0">>))),
     sektori |-> Resolve(record, "sektori", "sector", Null),
     data_year |-> JsOr(Field(record, "data_year"), year)]

\* The transformation of a CSV record to the database format.
ToInvoice(record, year) ==
    [lasku_id |-> Resolve(record, "lasku_id", "invoice_id", Str("")),
     hankintayksikko |-> Resolve(record, "hankintayksikko", "procurement_unit", Str("")),
     hankintayksikko_tunnus |->
         Resolve(record, "hankintayksikko_tunnus", "procurement_unit_id", Null),
     ylaorganisaatio |-> Resolve(record, "ylaorganisaatio", "parent_organization", Null),
     ylaorganisaatio_tunnus |->
         Resolve(record, "ylaorganisaatio_tunnus", "parent_organization_id", Null),
     toimittaja_y_tunnus |->
         Resolve(record, "toimittaja_y_tunnus", "supplier_business_id", Null),
     toimittaja_nimi |-> Resolve(record, "toimittaja_nimi", "supplier_name", Null),
     toimittaja_kunta |-> Resolve(record, "toimittaja_kunta", "supplier_city", Null),
     tili |-> Resolve(record, "tili", "account", Null),
     hankintakategoria |->
         Resolve(record, "hankintakategoria", "procurement_category", Str("")),
     tuote_palveluryhma |->
         Resolve(record, "tuote_palveluryhma", "product_service_group", Null),
     tositepvm |-> Resolve(record, "tositepvm", "invoice_entry_date", Str("")),
     tiliointisumma |->
         parseFloat(Resolve(record, "tiliointisumma", "posting_sum", Chars(<<"0">>))),
     sektori |-> Resolve(record, "sektori", "sector", Null),
     data_year |-> year]

\* The first 'line' of split('\n') of the characters.
FirstLine(cs) ==
    IF \E i \in 1..Len(cs) : cs[i] = "\n"
    THEN SubSeq(cs, 1, (CHOOSE i \in 1..Len(cs) :
                           cs[i] = "\n" /\ \A j \in 1..(i - 1) : cs[j] # "\n") - 1)
    ELSE cs

\* Mutant: a detection that looks at the declared format first.
detectDelimiterFormatFirst(head, format) ==
    IF toLowerCase(format) = Chars(<<"t", "s", "v">>) THEN Str("\t")
    ELSE IF head # Null /\ \E i \in 1..Len(head.chars) : head.chars[i] = ";" THEN Str(";")
    ELSE Str(",")

\* detectDelimiter(format) of importCSVFile, for the characters at the start
\* of the file (null when the file cannot be opened or read): a buffer of
\* BufferSize zero bytes is filled from the file, and its first line looked
\* at; a failure to read is caught.
detectDelimiter(head, format) ==
    IF head = Null
    THEN IF toLowerCase(format) = Chars(<<"t", "s", "v">>) THEN Str("\t") ELSE Str(",")
    ELSE LET buffer == [i \in 1..BufferSize |->
                           IF i <= Len(head.chars) THEN head.chars[i] ELSE "NUL"]
             firstLine == FirstLine(buffer)
         IN  IF \E i \in 1..Len(firstLine) : firstLine[i] = ";" THEN Str(";")
             ELSE IF toLowerCase(format) = Chars(<<"t", "s", "v">>) THEN Str("\t")
             ELSE Str(",")

\* Mutant: a validation that forgets the posting date.
ValidInvoiceNoDate(invoice) ==
    /\ Truthy(invoice.lasku_id)
    /\ Truthy(invoice.hankintayksikko)
    /\ Truthy(invoice.hankintakategoria)

\* The required fields are all present.
ValidInvoice(invoice) ==
    /\ Truthy(invoice.lasku_id)
    /\ Truthy(invoice.hankintayksikko)
    /\ Truthy(invoice.hankintakategoria)
    /\ Truthy(invoice.tositepvm)

\* The parser's 'data' handler, on the importer's local state st =
\* [records, recordCount, errorCount], the table and the log of flushes.
\* A throw of insertBatch is caught by the handler's try/catch, which counts
\* an error; recordCount has been incremented and the batch has been spliced
\* out of the buffer by then.
DataHandler(st, record, year) ==
    LET invoice == ToInvoice(record, year)
    IN  IF ~ValidInvoice(invoice)
        THEN [st EXCEPT !.errorCount = @ + 1]
        ELSE LET pushed == Append(st.records, invoice)
                 count == st.recordCount + 1
             IN  IF Len(pushed) >= BatchSize
                 THEN LET batch == SubSeq(pushed, 1, BatchSize)
                          rest == SubSeq(pushed, BatchSize + 1, Len(pushed))
                          r == insertBatch(st.table, batch)
                      IN  [records |-> rest,
                           recordCount |-> count,
                           errorCount |-> IF r.ok THEN st.errorCount
                                          ELSE st.errorCount + 1,
                           table |-> r.table,
                           flushes |-> Append(st.flushes, [batch |-> batch, ok |-> r.ok])]
                 ELSE [st EXCEPT !.records = pushed, !.recordCount = count]

\* updateMetadata(resource, recordCount): the row it writes.
MetadataParams(res, count) ==
    [resource_id |-> res.id,
     resource_name |-> res.name,
     resource_url |-> res.url,
     file_format |-> res.format,
     data_year |-> extractYearFromFilename(res.name),
     last_modified |-> res.last_modified,
     records_imported |-> Num(count),
     status |-> Str("completed")]

updateMetadata(table, res, count) == LedgerRun(table, MetadataParams(res, count))

\* Mutant: an 'end' handler without the flush of the remaining records.
EndHandlerNoFinalFlush(st, led, res) ==
    LET meta == updateMetadata(led, res, st.recordCount)
    IN  [table |-> st.table, flushes |-> st.flushes, ledger |-> meta.table,
         settled |-> meta.ok]

\* The parser's 'end' handler: the final flush of a non-empty buffer,
\* updateMetadata, resolve.  A throw of insertBatch or of updateMetadata
\* leaves the listener as an uncaught exception: what follows it in the
\* handler is not executed, the promise is never settled (settled = FALSE)
\* and the process ends.
EndHandler(st, led, res) ==
    LET flush == IF Len(st.records) > 0 THEN insertBatch(st.table, st.records)
                 ELSE [ok |-> TRUE, table |-> st.table]
        log == IF Len(st.records) > 0
               THEN Append(st.flushes, [batch |-> st.records, ok |-> flush.ok])
               ELSE st.flushes
        meta == IF flush.ok THEN updateMetadata(led, res, st.recordCount)
                ELSE [ok |-> FALSE, table |-> led]
    IN  [table |-> flush.table, flushes |-> log, ledger |-> meta.table,
         settled |-> flush.ok /\ meta.ok]

\* The 'data' handler over the records of a file, in order.
RECURSIVE DataFold(_, _, _)
DataFold(st, f, year) ==
    IF f = <<>> THEN st
    ELSE DataFold(DataHandler(st, Head(f), year), Tail(f), year)

\* importCSVFile(filePath, resource) on a file whose stream delivers the
\* records f and then ends: the tables it leaves and whether it settles.
importCSVFile(table, led, f, res) ==
    LET st0 == [records |-> <<>>, recordCount |-> 0, errorCount |-> 0,
                table |-> table, flushes |-> <<>>]
    IN  EndHandler(DataFold(st0, f, extractYearFromFilename(res.name)), led, res)

----------------------------------------------------------------------------
(* The state *)

VARIABLES
    invoices,      \* table procurement_invoices
    ledger,        \* table dataset_metadata
    pc,            \* "idle", "streaming", "resolved", "rejected" or "crashed"
    resource,      \* the resource of the import in progress or last ended
    records,       \* importCSVFile's buffer of accepted records
    recordCount,
    errorCount,
    outcome,       \* what the promise of importCSVFile settled with
    file,          \* history: the records the parser has delivered
    flushes,       \* history: the calls of insertBatch of this import
    before,        \* history: the invoice table when the import started
    phase,         \* of a run of the updater: "none", "fetching",
                   \* "downloading", "importing" or "exited"
    options,       \* the options of the run
    beforeRun,     \* history: the invoice table when the run started
    disk,          \* the download directory: the size of each file in it
    dataset,       \* the catalog's descriptor as fetched by the run
    resourcesToDownload,
    downloadResults,
    importResults,
    exitCode,      \* the status the process of the run ended with
    requests,      \* history: the network requests of the run
    input,         \* the arguments of a function called on its own
    output         \* what it returned

importVars ==
    <<invoices, ledger, pc, resource, records, recordCount, errorCount,
      outcome, file, flushes, before>>

runVars ==
    <<phase, options, beforeRun, disk, dataset, resourcesToDownload, downloadResults,
      importResults, exitCode, requests>>

callVars == <<input, output>>

vars == <<importVars, runVars, callVars>>

Pending == [pending |-> TRUE]

\* The database as initializeDatabase creates it, and no import yet.
InitImport ==
    /\ invoices = EmptyBag
    /\ ledger = EmptyBag
    /\ pc = "idle"
    /\ resource = Res2023
    /\ records = <<>>
    /\ recordCount = 0
    /\ errorCount = 0
    /\ outcome = Pending
    /\ file = <<>>
    /\ flushes = <<>>
    /\ before = EmptyBag

DefaultOptions == [years |-> Null, forceRedownload |-> FALSE, clearExisting |-> FALSE]

\* No run of the updater yet, and an empty download directory.
InitRun ==
    /\ phase = "none"
    /\ options = DefaultOptions
    /\ beforeRun = EmptyBag
    /\ disk = <<>>
    /\ dataset = Null
    /\ resourcesToDownload = <<>>
    /\ downloadResults = <<>>
    /\ importResults = <<>>
    /\ exitCode = Null
    /\ requests = <<>>

InitCall == input = Null /\ output = Null

Init == InitImport /\ InitRun /\ InitCall

\* importCSVFile(filePath, resource) up to the creation of the parser.
StartImport(res) ==
    /\ pc # "streaming"
    /\ pc' = "streaming"
    /\ resource' = res
    /\ records' = <<>>
    /\ recordCount' = 0
    /\ errorCount' = 0
    /\ outcome' = Pending
    /\ file' = <<>>
    /\ flushes' = <<>>
    /\ before' = invoices
    /\ UNCHANGED <<invoices, ledger>>

\* parser.on('data', ...)
OnData(record) ==
    /\ pc = "streaming"
    /\ Len(file) < MaxFileLen
    /\ LET st == [records |-> records, recordCount |-> recordCount,
                  errorCount |-> errorCount, table |-> invoices,
                  flushes |-> flushes]
           next == DataHandler(st, record, extractYearFromFilename(resource.name))
       IN  /\ records' = next.records
           /\ recordCount' = next.recordCount
           /\ errorCount' = next.errorCount
           /\ invoices' = next.table
           /\ flushes' = next.flushes
    /\ file' = Append(file, record)
    /\ UNCHANGED <<ledger, pc, resource, outcome, before>>

\* parser.on('end', ...)
OnEnd ==
    /\ pc = "streaming"
    /\ LET st == [records |-> records, recordCount |-> recordCount,
                  errorCount |-> errorCount, table |-> invoices,
                  flushes |-> flushes]
           next == EndHandler(st, ledger, resource)
       IN  /\ invoices' = next.table
           /\ flushes' = next.flushes
           /\ ledger' = next.ledger
           /\ pc' = IF next.settled THEN "resolved" ELSE "crashed"
           /\ outcome' = IF next.settled
                         THEN [recordCount |-> recordCount, errorCount |-> errorCount]
                         ELSE outcome
    /\ UNCHANGED <<resource, records, recordCount, errorCount, file, before>>

\* Mutant: an 'error' handler that undoes what the import has stored.
OnErrorRollback(error) ==
    /\ pc = "streaming"
    /\ pc' = "rejected"
    /\ outcome' = [error |-> error]
    /\ invoices' = before
    /\ UNCHANGED <<ledger, resource, records, recordCount, errorCount,
                   file, flushes, before>>

\* Mutant: an 'error' handler that records the import in the ledger.
OnErrorMarksCompleted(error) ==
    /\ pc = "streaming"
    /\ pc' = "rejected"
    /\ outcome' = [error |-> error]
    /\ ledger' = updateMetadata(ledger, resource, recordCount).table
    /\ UNCHANGED <<invoices, resource, records, recordCount, errorCount,
                   file, flushes, before>>

\* parser.on('error', ...): reject(error).
OnError(error) ==
    /\ pc = "streaming"
    /\ pc' = "rejected"
    /\ outcome' = [error |-> error]
    /\ UNCHANGED <<invoices, ledger, resource, records, recordCount, errorCount,
                   file, flushes, before>>

\* clearInvoiceData(), the first step of a run that was asked to clear: both
\* tables are emptied.  No import is in progress in that run yet; what an
\* earlier import left in its local variables is gone.
clearInvoiceData ==
    /\ pc # "streaming"
    /\ invoices' = EmptyBag
    /\ ledger' = EmptyBag
    /\ pc' = "idle"
    /\ resource' = Res2023
    /\ records' = <<>>
    /\ recordCount' = 0
    /\ errorCount' = 0
    /\ outcome' = Pending
    /\ file' = <<>>
    /\ flushes' = <<>>
    /\ before' = EmptyBag

\* GET /api/procurement/invoices and the other endpoints of the query
\* service: SELECT statements only, at any moment of an import.
Query == UNCHANGED vars

Next ==
    \/ \E res \in Resources : StartImport(res) /\ UNCHANGED <<runVars, callVars>>
    \/ \E record \in CsvRecords : OnData(record) /\ UNCHANGED <<runVars, callVars>>
    \/ OnEnd /\ UNCHANGED <<runVars, callVars>>
    \/ \E error \in ParserErrors : OnError(error) /\ UNCHANGED <<runVars, callVars>>
    \/ clearInvoiceData /\ UNCHANGED <<runVars, callVars>>
    \/ Query

Spec == Init /\ [][Next]_vars

NextWide ==
    \/ \E res \in WideResources : StartImport(res) /\ UNCHANGED <<runVars, callVars>>
    \/ \E record \in WideRecords : OnData(record) /\ UNCHANGED <<runVars, callVars>>
    \/ OnEnd /\ UNCHANGED <<runVars, callVars>>
    \/ \E error \in ParserErrors : OnError(error) /\ UNCHANGED <<runVars, callVars>>
    \/ clearInvoiceData /\ UNCHANGED <<runVars, callVars>>

SpecWide == Init /\ [][NextWide]_vars

NextFields ==
    \/ \E res \in FieldResources : StartImport(res) /\ UNCHANGED <<runVars, callVars>>
    \/ \E record \in FieldRecords : OnData(record) /\ UNCHANGED <<runVars, callVars>>
    \/ OnEnd /\ UNCHANGED <<runVars, callVars>>
    \/ \E error \in ParserErrors : OnError(error) /\ UNCHANGED <<runVars, callVars>>
    \/ clearInvoiceData /\ UNCHANGED <<runVars, callVars>>

SpecFields == Init /\ [][NextFields]_vars

----------------------------------------------------------------------------
(* A run of the updater: updateProcurementData, downloadAllProcurementFiles *)
(* and importAllFiles                                                      *)

\* Mutant: a clear that deletes the rows of the selected years only.
ClearedInvoicesOfYears(table, opts) ==
    IF ~opts.clearExisting THEN table
    ELSE IF opts.years = Null THEN EmptyBag
    ELSE LET keep == {t \in BagToSet(table) :
                         ~\E i \in 1..Len(opts.years.array) :
                              opts.years.array[i] = t.data_year}
         IN  [t \in keep |-> table[t]]

\* if (clearExisting) clearInvoiceData(): DELETE FROM procurement_invoices
ClearedInvoices(table, opts) == IF opts.clearExisting THEN EmptyBag ELSE table

\* if (clearExisting) clearInvoiceData(): DELETE FROM dataset_metadata
ClearedLedger(table, opts) == IF opts.clearExisting THEN EmptyBag ELSE table

\* Mutant: a skip that does not look at the force flag.
SkipsDownloadIfPresent(files, res, opts) == res.name \in DOMAIN files

\* fs.existsSync(filePath) && !forceRedownload
SkipsDownload(files, res, opts) ==
    res.name \in DOMAIN files /\ ~opts.forceRedownload

\* The download directory after a file of the size was written for the
\* resource.
Written(files, res, size) ==
    [n \in DOMAIN files \cup {res.name} |-> IF n = res.name THEN size ELSE files[n]]

\* updateProcurementData(options) in a new process, up to the request for
\* the catalog: the command line is parsed, the database opened and, when
\* asked for, cleared.
StartRun(yearArg, force, clear) ==
    LET opts == [years |-> ParseYears(yearArg), forceRedownload |-> force,
                 clearExisting |-> clear]
    IN  /\ phase \in {"none", "exited"}
        /\ pc # "streaming"
        /\ options' = opts
        /\ beforeRun' = invoices
        /\ invoices' = ClearedInvoices(invoices, opts)
        /\ ledger' = ClearedLedger(ledger, opts)
        /\ pc' = "idle"
        /\ resource' = Res2023
        /\ records' = <<>>
        /\ recordCount' = 0
        /\ errorCount' = 0
        /\ outcome' = Pending
        /\ file' = <<>>
        /\ flushes' = <<>>
        /\ before' = EmptyBag
        /\ phase' = "fetching"
        /\ dataset' = Null
        /\ resourcesToDownload' = <<>>
        /\ downloadResults' = <<>>
        /\ importResults' = <<>>
        /\ exitCode' = Null
        /\ requests' = <<>>
        /\ UNCHANGED <<disk, callVars>>

\* fetchDatasetMetadata() returns the descriptor; it is filtered, sorted and
\* restricted to the years asked for.
FetchMetadata(descriptor) ==
    /\ phase = "fetching"
    /\ phase' = "downloading"
    /\ requests' = Append(requests, Str("package_show"))
    /\ dataset' = descriptor
    /\ resourcesToDownload' =
           SelectByYears(filterProcurementResources(descriptor), options.years)
    /\ UNCHANGED <<importVars, options, beforeRun, disk, downloadResults, importResults,
                   exitCode, callVars>>

\* fetchDatasetMetadata() throws; the error reaches the catch of
\* updateProcurementData: process.exit(1).
FetchMetadataFails(error) ==
    /\ phase = "fetching"
    /\ phase' = "exited"
    /\ exitCode' = Num(1)
    /\ requests' = Append(requests, Str("package_show"))
    /\ UNCHANGED <<importVars, options, beforeRun, disk, dataset, resourcesToDownload,
                   downloadResults, importResults, callVars>>

\* The resource the loop of downloadAllProcurementFiles is at.
NextDownload == resourcesToDownload[Len(downloadResults) + 1]

\* An iteration of the loop for a file that is there: no download.
SkipDownload ==
    /\ phase = "downloading"
    /\ Len(downloadResults) < Len(resourcesToDownload)
    /\ SkipsDownload(disk, NextDownload, options)
    /\ downloadResults' =
           Append(downloadResults,
                  [filePath |-> NextDownload.name, size |-> disk[NextDownload.name],
                   resource |-> NextDownload, skipped |-> TRUE])
    /\ UNCHANGED <<importVars, phase, options, beforeRun, disk, dataset, resourcesToDownload,
                   importResults, exitCode, requests, callVars>>

\* An iteration of the loop with downloadFile(resource): the body is
\* written to the file.
DownloadFile(size) ==
    /\ phase = "downloading"
    /\ Len(downloadResults) < Len(resourcesToDownload)
    /\ ~SkipsDownload(disk, NextDownload, options)
    /\ requests' = Append(requests, NextDownload.url)
    /\ disk' = Written(disk, NextDownload, size)
    /\ downloadResults' =
           Append(downloadResults,
                  [filePath |-> NextDownload.name, size |-> size,
                   resource |-> NextDownload, skipped |-> FALSE])
    /\ UNCHANGED <<importVars, phase, options, beforeRun, dataset, resourcesToDownload,
                   importResults, exitCode, callVars>>

\* Mutant: a failed download that puts back the invoices the run began
\* with.
DownloadFailsRestores(error, written) ==
    /\ phase = "downloading"
    /\ Len(downloadResults) < Len(resourcesToDownload)
    /\ ~SkipsDownload(disk, NextDownload, options)
    /\ requests' = Append(requests, NextDownload.url)
    /\ disk' = IF written = 0 THEN disk ELSE Written(disk, NextDownload, written)
    /\ phase' = "exited"
    /\ exitCode' = Num(1)
    /\ invoices' = beforeRun
    /\ UNCHANGED <<ledger, pc, resource, records, recordCount, errorCount, outcome,
                   file, flushes, before, options, beforeRun, dataset,
                   resourcesToDownload, downloadResults, importResults, callVars>>

\* downloadFile(resource) throws, on the response or while the body is
\* written, which leaves the file as it was or with the bytes written so
\* far; the error reaches the catch of updateProcurementData.
DownloadFails(error, written) ==
    /\ phase = "downloading"
    /\ Len(downloadResults) < Len(resourcesToDownload)
    /\ ~SkipsDownload(disk, NextDownload, options)
    /\ requests' = Append(requests, NextDownload.url)
    /\ disk' = IF written = 0 THEN disk ELSE Written(disk, NextDownload, written)
    /\ phase' = "exited"
    /\ exitCode' = Num(1)
    /\ UNCHANGED <<importVars, options, beforeRun, dataset, resourcesToDownload,
                   downloadResults, importResults, callVars>>

\* Mutant: importAllFiles begins while resources are still to be
\* downloaded.
DownloadsDoneEarly ==
    /\ phase = "downloading"
    /\ Len(downloadResults) <= Len(resourcesToDownload)
    /\ IF downloadResults = <<>>
       THEN phase' = "exited" /\ exitCode' = Num(0)
       ELSE phase' = "importing" /\ exitCode' = exitCode
    /\ UNCHANGED <<importVars, options, beforeRun, disk, dataset, resourcesToDownload,
                   downloadResults, importResults, requests, callVars>>

\* downloadAllProcurementFiles returns: with no file the run ends, else
\* importAllFiles begins.
DownloadsDone ==
    /\ phase = "downloading"
    /\ Len(downloadResults) = Len(resourcesToDownload)
    /\ IF downloadResults = <<>>
       THEN phase' = "exited" /\ exitCode' = Num(0)
       ELSE phase' = "importing" /\ exitCode' = exitCode
    /\ UNCHANGED <<importVars, options, beforeRun, disk, dataset, resourcesToDownload,
                   downloadResults, importResults, requests, callVars>>

\* The download the loop of importAllFiles is at.
NextImport == downloadResults[Len(importResults) + 1]

\* An iteration of the loop of importAllFiles calls importCSVFile.
ImportNext ==
    /\ phase = "importing"
    /\ pc = "idle"
    /\ Len(importResults) < Len(downloadResults)
    /\ StartImport(NextImport.resource)
    /\ UNCHANGED <<runVars, callVars>>

\* The parser's events during an import of the run.
RunData(record) ==
    /\ phase = "importing"
    /\ Len(file) < MaxRunFileLen
    /\ OnData(record)
    /\ UNCHANGED <<runVars, callVars>>

RunEnd == phase = "importing" /\ OnEnd /\ UNCHANGED <<runVars, callVars>>

RunError(error) ==
    phase = "importing" /\ OnError(error) /\ UNCHANGED <<runVars, callVars>>

\* The await of importCSVFile returns or throws into the catch of the
\* loop: a result is pushed.
ImportSettled ==
    /\ phase = "importing"
    /\ pc \in {"resolved", "rejected"}
    /\ importResults' =
           Append(importResults,
                  IF pc = "resolved"
                  THEN [filename |-> resource.name, success |-> TRUE,
                        recordCount |-> outcome.recordCount,
                        errorCount |-> outcome.errorCount]
                  ELSE [filename |-> resource.name, success |-> FALSE,
                        error |-> outcome.error])
    /\ pc' = "idle"
    /\ UNCHANGED <<invoices, ledger, resource, records, recordCount, errorCount,
                   outcome, file, flushes, before, phase, options, beforeRun, disk, dataset,
                   resourcesToDownload, downloadResults, exitCode, requests,
                   callVars>>

\* The exception thrown in the 'end' listener is caught by nobody: the
\* process ends with status 1.
ImportCrashed ==
    /\ phase = "importing"
    /\ pc = "crashed"
    /\ phase' = "exited"
    /\ exitCode' = Num(1)
    /\ UNCHANGED <<importVars, options, beforeRun, disk, dataset, resourcesToDownload,
                   downloadResults, importResults, requests, callVars>>

\* importAllFiles returns, the statistics are printed and the process
\* ends.
Report ==
    /\ phase = "importing"
    /\ pc = "idle"
    /\ Len(importResults) = Len(downloadResults)
    /\ phase' = "exited"
    /\ exitCode' = Num(0)
    /\ UNCHANGED <<importVars, options, beforeRun, disk, dataset, resourcesToDownload,
                   downloadResults, importResults, requests, callVars>>

NextRun ==
    \/ \E yearArg \in YearArgs, force \in BOOLEAN, clear \in BOOLEAN :
          StartRun(yearArg, force, clear)
    \/ FetchMetadata(Catalog)
    \/ \E error \in FetchErrors : FetchMetadataFails(error)
    \/ SkipDownload
    \/ \E size \in FileSizes : DownloadFile(size)
    \/ \E error \in DownloadErrors, written \in {0} \cup FileSizes :
          DownloadFails(error, written)
    \/ DownloadsDone
    \/ ImportNext
    \/ \E record \in RunRecords : RunData(record)
    \/ RunEnd
    \/ \E error \in ParserErrors : RunError(error)
    \/ ImportSettled
    \/ ImportCrashed
    \/ Report

SpecRun == Init /\ [][NextRun]_vars

NextRunNoYear ==
    \/ \E yearArg \in YearArgs, force \in BOOLEAN, clear \in BOOLEAN :
          StartRun(yearArg, force, clear)
    \/ FetchMetadata(CatalogNoYear)
    \/ \E error \in FetchErrors : FetchMetadataFails(error)
    \/ SkipDownload
    \/ \E size \in FileSizes : DownloadFile(size)
    \/ \E error \in DownloadErrors, written \in {0} \cup FileSizes :
          DownloadFails(error, written)
    \/ DownloadsDone
    \/ ImportNext
    \/ \E record \in NoYearRecords : RunData(record)
    \/ RunEnd
    \/ \E error \in ParserErrors : RunError(error)
    \/ ImportSettled
    \/ ImportCrashed
    \/ Report

SpecRunNoYear == Init /\ [][NextRunNoYear]_vars

----------------------------------------------------------------------------
(* The functions called on their own *)

\* The sequences over the set of at most n elements.
SeqsUpTo(S, n) == UNION {[1..k -> S] : k \in 0..n}

\* extractYearFromFilename(filename)
CallExtractYear ==
    /\ output = Null
    /\ output' = [returned |-> extractYearFromFilename(input.filename)]
    /\ UNCHANGED <<importVars, runVars, input>>

InitYear ==
    /\ InitImport /\ InitRun
    /\ input \in {[filename |-> Chars(cs)] : cs \in SeqsUpTo(NameChars, MaxNameLen)}
    /\ output = Null

NextYear == CallExtractYear

SpecYear == InitYear /\ [][NextYear]_vars

\* The delimiter of importCSVFile(filePath, resource): the format is put in
\* lower case and handed to detectDelimiter.
CallDetectDelimiter ==
    /\ output = Null
    /\ output' = [returned |-> detectDelimiter(input.head, toLowerCase(input.format))]
    /\ UNCHANGED <<importVars, runVars, input>>

InitDelimiter ==
    /\ InitImport /\ InitRun
    /\ input \in {[head |-> h, format |-> Chars(f)] :
                     h \in {Null} \cup {Chars(cs) : cs \in SeqsUpTo(HeadChars, MaxHeadLen)},
                     f \in DeclaredFormats}
    /\ output = Null

NextDelimiter == CallDetectDelimiter

SpecDelimiter == InitDelimiter /\ [][NextDelimiter]_vars

\* The transformation and the validation of the 'data' handler for one
\* record of a resource of 2023.
CallTransform ==
    /\ output = Null
    /\ LET invoice == ToInvoice(input.record, Num(2023))
       IN  output' = [invoice |-> invoice, valid |-> ValidInvoice(invoice)]
    /\ UNCHANGED <<importVars, runVars, input>>

InitTransform ==
    /\ InitImport /\ InitRun
    /\ input \in {[record |-> r] : r \in TransformRecords}
    /\ output = Null

NextTransform == CallTransform

SpecTransform == InitTransform /\ [][NextTransform]_vars

\* The selection of downloadAllProcurementFiles for the command line's
\* years: the descriptor is filtered and sorted, then restricted.
CallSelectResources ==
    /\ output = Null
    /\ LET years == ParseYears(input.yearArg)
           filtered == filterProcurementResources(input.dataset)
       IN  output' = [years |-> years, filtered |-> filtered,
                      selected |-> SelectByYears(filtered, years)]
    /\ UNCHANGED <<importVars, runVars, input>>

InitCatalog ==
    /\ InitImport /\ InitRun
    /\ input \in {[dataset |-> [resources |-> rs], yearArg |-> a] :
                     rs \in SeqsUpTo(CatalogResources, MaxCatalogLen),
                     a \in CatalogYearArgs}
    /\ output = Null

NextCatalog == CallSelectResources

SpecCatalog == InitCatalog /\ [][NextCatalog]_vars

----------------------------------------------------------------------------
(* Vocabulary of the properties *)

\* The year of the import in progress or last ended.
Year == extractYearFromFilename(resource.name)

\* The row a statement stores for an invoice.
StoredForm(invoice) == [c \in DOMAIN invoice |-> Bind(invoice[c])]

\* A record passes the validation of the required fields.
Accepted(record) == ValidInvoice(ToInvoice(record, Year))

\* The invoices of the accepted records of f, in file order.
RECURSIVE AcceptedInvoices(_, _)
AcceptedInvoices(f, year) ==
    IF f = <<>> THEN <<>>
    ELSE LET invoice == ToInvoice(Head(f), year)
         IN  IF ValidInvoice(invoice)
             THEN <<invoice>> \o AcceptedInvoices(Tail(f), year)
             ELSE AcceptedInvoices(Tail(f), year)

\* The rows of a table with a given identifier.
RowsOf(table, id) == {t \in BagToSet(table) : t.lasku_id = id}

\* The stream of the import has ended (no parser error).
StreamEnded == pc \in {"resolved", "crashed"}

----------------------------------------------------------------------------
(* C1 *)

\* C1: importing the file that has just been imported once more, for the
\* same resource, leaves the invoice table as the first import left it: the
\* same rows (identifiers and field values) in the same number, whatever
\* the table held before the first import.
C1_ImportTwiceIsImportOnce ==
    StreamEnded =>
        importCSVFile(invoices, ledger, file, resource).table = invoices

\* An import over a non-empty table has stored rows and changed the table.
C1_Witness ==
    /\ pc = "resolved"
    /\ before # EmptyBag
    /\ invoices # before
    /\ \E k \in 1..Len(flushes) : flushes[k].ok

----------------------------------------------------------------------------
(* C2 *)

\* C2: when the table held a row for an identifier before an import
\* (stored by an earlier import) and the file of the import that has now
\* completed holds an accepted record with that identifier and another
\* amount, the table holds exactly one row for the identifier and the row
\* is the one an accepted record of this file with this resource's year
\* gives.
C2_SecondImportWins ==
    pc = "resolved" =>
        \A i \in 1..Len(file) :
            LET invoice == ToInvoice(file[i], Year)
                sameId == {StoredForm(ToInvoice(file[j], Year)) : j \in
                              {j \in 1..Len(file) :
                                  /\ Accepted(file[j])
                                  /\ ToInvoice(file[j], Year).lasku_id = invoice.lasku_id}}
            IN  (/\ ValidInvoice(invoice)
                 /\ \E t \in RowsOf(before, invoice.lasku_id) :
                        t.tiliointisumma # invoice.tiliointisumma)
                => /\ Cardinality(RowsOf(invoices, invoice.lasku_id)) = 1
                   /\ \A t \in RowsOf(invoices, invoice.lasku_id) :
                        invoices[t] = 1 /\ t \in sameId

----------------------------------------------------------------------------
(* C3 *)

\* The rows complete accepted records give, for every resource and record.
AcceptedRows ==
    {StoredForm(ToInvoice(record, extractYearFromFilename(res.name))) :
        record \in {r \in AllRecords : ValidInvoice(ToInvoice(r, Null))},
        res \in AllResources}

\* C3: in every reachable state no two rows of the invoice table share a
\* lasku_id, and every row is the row one accepted record gives as a whole.
C3_UniqueWholeRows ==
    \A t \in BagToSet(invoices) :
        /\ invoices[t] = 1
        /\ RowsOf(invoices, t.lasku_id) = {t}
        /\ t \in AcceptedRows

\* A row has been replaced by a row of another record with its identifier.
C3_Witness ==
    \E t \in BagToSet(before), u \in BagToSet(invoices) :
        t.lasku_id = u.lasku_id /\ t.tiliointisumma # u.tiliointisumma

----------------------------------------------------------------------------
(* C4 *)

\* A required field of the invoice is empty after alias resolution.
MissingRequired(invoice) ==
    \E c \in {"lasku_id", "hankintayksikko", "hankintakategoria", "tositepvm"} :
        invoice[c] = Str("")

\* C4: a 'data' event whose record lacks a required field after alias
\* resolution increments errorCount by one, leaves recordCount, the buffer,
\* the flushes and the table unchanged, settles nothing and leaves the
\* import streaming, ready for the next record.
C4_RejectedRecordCounted ==
    [][(pc = "streaming" /\ Len(file') = Len(file) + 1) =>
          (MissingRequired(ToInvoice(file'[Len(file')], Year)) =>
              /\ errorCount' = errorCount + 1
              /\ recordCount' = recordCount
              /\ records' = records
              /\ flushes' = flushes
              /\ invoices' = invoices
              /\ outcome' = Pending
              /\ pc' = "streaming")]_vars

\* A rejected record has been followed by a record that was accepted.
C4_Witness ==
    /\ pc = "streaming"
    /\ Len(file) = 2
    /\ MissingRequired(ToInvoice(file[1], Year))
    /\ ~MissingRequired(ToInvoice(file[2], Year))
    /\ errorCount = 1
    /\ recordCount = 1

----------------------------------------------------------------------------
(* C5 *)

\* The records of the batches of a log of flushes, in order.
RECURSIVE FlushedRecords(_)
FlushedRecords(log) ==
    IF log = <<>> THEN <<>>
    ELSE Head(log).batch \o FlushedRecords(Tail(log))

\* C5: with n the number of accepted records delivered, no flush is empty;
\* while the stream runs there have been n div BatchSize flushes, each of
\* BatchSize records, and the flushed records followed by the buffer are
\* the accepted records in file order; once the stream has ended there have
\* been ceil(n / BatchSize) flushes, all of BatchSize records but the last,
\* which holds the rest, the flushed records are the accepted records in
\* file order, and the recordCount returned is n.
C5_FlushesPartitionAccepted ==
    LET acc == AcceptedInvoices(file, Year)
        n == Len(acc)
        k == Len(flushes)
    IN  /\ \A i \in 1..k : Len(flushes[i].batch) >= 1
        /\ pc \in {"streaming", "rejected"} =>
              /\ k = n \div BatchSize
              /\ \A i \in 1..k : Len(flushes[i].batch) = BatchSize
              /\ FlushedRecords(flushes) \o records = acc
        /\ StreamEnded =>
              /\ k = (n + BatchSize - 1) \div BatchSize
              /\ \A i \in 1..(k - 1) : Len(flushes[i].batch) = BatchSize
              /\ k > 0 => Len(flushes[k].batch) = n - BatchSize * (k - 1)
              /\ FlushedRecords(flushes) = acc
        /\ pc = "resolved" => outcome.recordCount = n

\* A file of 2 * BatchSize - 1 accepted records has been imported with a
\* flush of BatchSize records and a flush of BatchSize - 1.
C5_Witness ==
    /\ pc = "resolved"
    /\ Len(AcceptedInvoices(file, Year)) = 2 * BatchSize - 1
    /\ Len(flushes) = 2
    /\ Len(flushes[1].batch) = BatchSize
    /\ Len(flushes[2].batch) = BatchSize - 1
    /\ outcome.recordCount = 2 * BatchSize - 1

----------------------------------------------------------------------------
(* C6 *)

\* The upsert of the invoice does not fail.
Insertable(invoice) == \A c \in InvoiceNotNull : StoredForm(invoice)[c] # Null

\* C6: a step that flushes a batch leaves the table as it was when the
\* upsert of a record of the batch fails, and the flush is a failure;
\* otherwise the flush is a success and for every identifier of the batch
\* the table holds exactly the row of the batch's last record with it,
\* while the rows of other identifiers are as before.
C6_FlushAllOrNothing ==
    [][Len(flushes') = Len(flushes) + 1 =>
          LET f == flushes'[Len(flushes')]
              ids == {f.batch[i].lasku_id : i \in 1..Len(f.batch)}
              Last(id) ==
                  LET i == CHOOSE i \in 1..Len(f.batch) :
                              /\ f.batch[i].lasku_id = id
                              /\ \A j \in (i + 1)..Len(f.batch) :
                                     f.batch[j].lasku_id # id
                  IN  StoredForm(f.batch[i])
          IN  IF \E i \in 1..Len(f.batch) : ~Insertable(f.batch[i])
              THEN ~f.ok /\ invoices' = invoices
              ELSE /\ f.ok
                   /\ \A id \in ids :
                        /\ RowsOf(invoices', id) = {Last(id)}
                        /\ invoices'[Last(id)] = 1
                   /\ \A t \in BagToSet(invoices) :
                        t.lasku_id \notin ids =>
                            t \in BagToSet(invoices') /\ invoices'[t] = invoices[t]
                   /\ \A t \in BagToSet(invoices') :
                        t.lasku_id \in ids \/ t \in BagToSet(invoices)]_vars

\* A flush has failed after a first record that could be upserted; no row
\* of that record is in the table, which holds other rows.
C6_Witness ==
    /\ Len(flushes) >= 1
    /\ ~flushes[Len(flushes)].ok
    /\ Insertable(flushes[Len(flushes)].batch[1])
    /\ RowsOf(invoices, flushes[Len(flushes)].batch[1].lasku_id) = {}
    /\ invoices # EmptyBag

----------------------------------------------------------------------------
(* C7 *)

\* The row the invoice gives when an amount that is no number counts as 0.
ZeroedRow(invoice) ==
    StoredForm([invoice EXCEPT !.tiliointisumma = IF @ = NaN THEN Num(0) ELSE @])

\* C7: once the stream has ended, every accepted record is counted in
\* recordCount, and for every batch that holds a record whose amount was
\* missing or no number, the table holds the row of each record of the
\* batch (of the last record with its identifier among the flushed ones),
\* with amount zero where the amount was missing or no number.
C7_UnparseableAmountStoredAsZero ==
    StreamEnded =>
        /\ recordCount = Len(AcceptedInvoices(file, Year))
        /\ \A k \in 1..Len(flushes) :
              (\E j \in 1..Len(flushes[k].batch) :
                    flushes[k].batch[j].tiliointisumma \in {NaN, Num(0)})
              => \A i \in 1..Len(flushes[k].batch) :
                    LET invoice == flushes[k].batch[i]
                        later == {<<m, h>> \in (1..Len(flushes)) \X (1..BatchSize) :
                                     /\ h <= Len(flushes[m].batch)
                                     /\ m > k \/ (m = k /\ h > i)
                                     /\ flushes[m].batch[h].lasku_id = invoice.lasku_id}
                    IN  later = {} => ZeroedRow(invoice) \in BagToSet(invoices)

----------------------------------------------------------------------------
(* C8 *)

\* C8: when the parser has raised an error, the promise is rejected with
\* that error and the rows of every batch flushed with success before it
\* are in the table (for each identifier, the row flushed last); the step
\* of the error leaves the table as it was.
C8_FlushedBatchesStay ==
    /\ [](pc = "rejected" =>
            /\ outcome \in {[error |-> e] : e \in ParserErrors}
            /\ \A k \in 1..Len(flushes) : \A i \in 1..Len(flushes[k].batch) :
                  LET invoice == flushes[k].batch[i]
                      later == {<<m, h>> \in (1..Len(flushes)) \X (1..BatchSize) :
                                   /\ h <= Len(flushes[m].batch)
                                   /\ flushes[m].ok
                                   /\ m > k \/ (m = k /\ h > i)
                                   /\ flushes[m].batch[h].lasku_id = invoice.lasku_id}
                  IN  (flushes[k].ok /\ later = {}) =>
                          StoredForm(invoice) \in BagToSet(invoices))
    /\ [][pc' = "rejected" => invoices' = invoices]_vars

\* An import has been rejected after a flush that changed the table.
C8_Witness ==
    /\ pc = "rejected"
    /\ \E k \in 1..Len(flushes) : flushes[k].ok
    /\ invoices # before

----------------------------------------------------------------------------
(* C9 *)

\* The ledger rows of a resource.
LedgerRowsOf(table, id) == {t \in BagToSet(table) : t.resource_id = id}

\* C9: the ledger changes only when it is cleared outside an import or
\* when an import resolves: a step from streaming to resolved in which the
\* buffer was empty or was flushed with success, and the rows it adds are
\* rows of the import's resource with status completed.  In particular the
\* step of a parser error leaves the ledger as it was.
C9_LedgerWrittenOnlyOnCompletion ==
    [][ledger' # ledger =>
          \/ pc # "streaming" /\ ledger' = EmptyBag
          \/ /\ pc = "streaming"
             /\ pc' = "resolved"
             /\ \/ records = <<>>
                \/ /\ Len(flushes') = Len(flushes) + 1
                   /\ flushes'[Len(flushes')] = [batch |-> records, ok |-> TRUE]
             /\ \A t \in BagToSet(ledger') \ BagToSet(ledger) :
                   t.resource_id = resource.id /\ t.status = Str("completed")]_vars

\* An import that had accepted records has been rejected, and the ledger,
\* which holds a row of another resource, holds none of its resource.
C9_Witness ==
    /\ pc = "rejected"
    /\ recordCount >= 1
    /\ ledger # EmptyBag
    /\ LedgerRowsOf(ledger, resource.id) = {}

----------------------------------------------------------------------------
(* C10 *)

\* C10: the ledger holds at most one row per resource identifier, and when
\* an import attempt has ended (resolved, rejected or with the process
\* ended), the ledger row of its resource, if there is one, carries the
\* record count of that attempt.
C10_LedgerReflectsLatestAttempt ==
    /\ \A t \in BagToSet(ledger) :
          ledger[t] = 1 /\ LedgerRowsOf(ledger, t.resource_id) = {t}
    /\ pc \in {"resolved", "rejected", "crashed"} =>
          \A t \in LedgerRowsOf(ledger, resource.id) :
              t.records_imported = Num(recordCount)

----------------------------------------------------------------------------
(* C11 *)

\* C11: in a run, a step of the import phase that changes the invoice
\* table or the ledger belongs to the import of a resource that the run
\* downloaded: a resource whose download was skipped writes no invoice row
\* and leaves the ledger as it was.
C11_SkippedNotImported ==
    [][(phase = "importing" /\ (invoices' # invoices \/ ledger' # ledger))
          => ~NextImport.skipped]_vars

----------------------------------------------------------------------------
(* C12 *)

\* C12: an iteration of the download loop for a resource whose file is in
\* the download directory, with force off, pushes a result with
\* skipped = TRUE and the size of that file and makes no request;
\* otherwise it requests the resource's URL, and the result it pushes, if
\* the download does not fail, has skipped = FALSE.
C12_SkipOnlyPresentUnforced ==
    [][(/\ phase = "downloading"
        /\ Len(downloadResults) < Len(resourcesToDownload)
        /\ <<downloadResults, requests, phase>>' # <<downloadResults, requests, phase>>)
          => LET res == NextDownload
             IN  IF res.name \in DOMAIN disk /\ ~options.forceRedownload
                 THEN /\ downloadResults' =
                            Append(downloadResults,
                                   [filePath |-> res.name, size |-> disk[res.name],
                                    resource |-> res, skipped |-> TRUE])
                      /\ requests' = requests
                      /\ disk' = disk
                 ELSE /\ requests' = Append(requests, res.url)
                      /\ downloadResults' # downloadResults =>
                            /\ Len(downloadResults') = Len(downloadResults) + 1
                            /\ downloadResults'[Len(downloadResults')].resource = res
                            /\ ~downloadResults'[Len(downloadResults')].skipped]_vars

\* The downloads of a run have ended with a resource skipped, for a file
\* of size 1 that is there, and a resource fetched.
C12_Witness ==
    /\ phase = "importing"
    /\ \E i, j \in 1..Len(downloadResults) :
          /\ downloadResults[i].skipped
          /\ downloadResults[i].size = 1
          /\ disk[downloadResults[i].resource.name] = 1
          /\ ~downloadResults[j].skipped
          /\ downloadResults[j].resource.url \in {requests[k] : k \in 1..Len(requests)}
          /\ downloadResults[i].resource.url \notin {requests[k] : k \in 1..Len(requests)}

----------------------------------------------------------------------------
(* C13 *)

\* The years of the run's options.
GivenYears ==
    IF options.years = Null THEN {}
    ELSE {options.years.array[i] : i \in 1..Len(options.years.array)}

\* C13: the step that starts a run with the clear flag leaves both tables
\* empty before any request, download or import of the run; and in a run
\* with the clear flag and years given, every invoice row is a row of one
\* of these years, whatever the table held before (with years = {2024},
\* no row of 2023 is left).
C13_ClearIsGlobalAndFirst ==
    /\ [][(phase # "fetching" /\ phase' = "fetching" /\ options'.clearExisting)
            => /\ invoices' = EmptyBag
               /\ ledger' = EmptyBag
               /\ requests' = <<>>
               /\ downloadResults' = <<>>
               /\ importResults' = <<>>
               /\ pc' = "idle"]_vars
    /\ []((phase # "none" /\ options.clearExisting /\ GivenYears # {})
            => \A t \in BagToSet(invoices) : t.data_year \in GivenYears)

\* A run with the clear flag and years = {2024} has ended with status 0
\* over a table that held rows of 2023 and of 2024: the table holds rows,
\* all of them of 2024.
C13_Witness ==
    /\ phase = "exited"
    /\ exitCode = Num(0)
    /\ options.clearExisting
    /\ GivenYears = {Num(2024)}
    /\ \E t, u \in BagToSet(beforeRun) :
          t.data_year = Num(2023) /\ u.data_year = Num(2024)
    /\ invoices # EmptyBag
    /\ \A t \in BagToSet(invoices) : t.data_year = Num(2024)

----------------------------------------------------------------------------
(* C14 *)

\* importAllFiles was called in the run that has ended.
ImportPhaseReached ==
    /\ dataset # Null
    /\ downloadResults # <<>>
    /\ Len(downloadResults) = Len(resourcesToDownload)

\* C14: when a run in which importAllFiles was called has ended, the list
\* of results has one entry per download, in the order of the downloads,
\* and an entry is a success or carries the error of the failed import.
C14_EveryResourceAttempted ==
    (phase = "exited" /\ ImportPhaseReached) =>
        /\ Len(importResults) = Len(downloadResults)
        /\ \A i \in 1..Len(importResults) :
              /\ importResults[i].filename = downloadResults[i].resource.name
              /\ \/ importResults[i].success
                 \/ importResults[i].error \in ParserErrors

----------------------------------------------------------------------------
(* C15 *)

\* C15: a run that has ended has status 1 when the fetch of the catalog
\* or a download failed, and then no import was started in it; in every
\* other case it has status 0.
C15_ExitStatus ==
    phase = "exited" =>
        LET fetchFailed == dataset = Null
            downloadFailed == Len(downloadResults) < Len(resourcesToDownload)
        IN  IF fetchFailed \/ downloadFailed
            THEN /\ exitCode = Num(1)
                 /\ importResults = <<>>
                 /\ pc = "idle"
                 /\ invoices = ClearedInvoices(beforeRun, options)
            ELSE exitCode = Num(0)

----------------------------------------------------------------------------
(* C16 *)

\* The declared format is tsv, in whatever case.
IsTsv(format) ==
    /\ Len(format.chars) = 3
    /\ format.chars[1] \in {"t", "T"}
    /\ format.chars[2] \in {"s", "S"}
    /\ format.chars[3] \in {"v", "V"}

\* A semicolon is among the leading BufferSize characters and before the
\* first end of line.
SemicolonInFirstLine(head) ==
    \E i \in 1..Len(head.chars) :
        /\ i <= BufferSize
        /\ head.chars[i] = ";"
        /\ \A j \in 1..(i - 1) : head.chars[j] # "\n"

\* C16: the detection of the delimiter returns, and what it returns is the
\* semicolon when the file can be read and the first line of its leading
\* characters holds a semicolon, whatever the declared format; else the
\* tab when the declared format is tsv in whatever case; else the comma.
C16_DelimiterDetected ==
    output # Null =>
        output = [returned |->
                     IF input.head # Null /\ SemicolonInFirstLine(input.head)
                     THEN Str(";")
                     ELSE IF IsTsv(input.format) THEN Str("\t")
                     ELSE Str(",")]

\* The semicolon was returned for a file declared as TSV.
C16_Witness ==
    /\ output # Null
    /\ output.returned = Str(";")
    /\ input.format = Chars(<<"T", "S", "V">>)

----------------------------------------------------------------------------
(* C17 *)

\* A run of exactly four digits starts at the index.
ExactlyFourDigitsAt(cs, i) ==
    /\ i + 3 <= Len(cs)
    /\ \A j \in i..(i + 3) : cs[j] \in Digit
    /\ i = 1 \/ cs[i - 1] \notin Digit
    /\ i + 4 > Len(cs) \/ cs[i + 4] \notin Digit

\* C17: extractYear returns the number of the first run of exactly four
\* digits of the filename, and null when the filename has no run of
\* exactly four digits.
C17_FirstRunOfExactlyFour ==
    output # Null =>
        LET cs == input.filename.chars
            starts == {i \in 1..Len(cs) : ExactlyFourDigitsAt(cs, i)}
            first == CHOOSE i \in starts : \A j \in starts : i <= j
        IN  output.returned =
                IF starts = {} THEN Null
                ELSE Num(DigitsValue(SubSeq(cs, first, first + 3)))

----------------------------------------------------------------------------
(* C18 *)

\* The character is the lower-case letter or its upper-case form.
LetterIs(c, lower) ==
    c = lower \/ \E i \in 1..Len(LowerCase) : LowerCase[i] = lower /\ UpperCase[i] = c

\* The word, in whatever case, is in the characters at the index.
WordAt(cs, i, word) ==
    /\ i >= 1
    /\ i + Len(word) - 1 <= Len(cs)
    /\ \A k \in 1..Len(word) : LetterIs(cs[i + k - 1], word[k])

\* The resource is a data file by its name and its format or extension,
\* and its name has no translation marker.
IsDataFileNotTranslation(res) ==
    LET n == res.name.chars
        f == res.format.chars
    IN  /\ WordAt(n, 1, ThData)
        /\ \/ Len(f) = 3 /\ WordAt(f, 1, <<"c", "s", "v">>)
           \/ Len(f) = 3 /\ WordAt(f, 1, <<"t", "s", "v">>)
           \/ WordAt(n, Len(n) - 3, DotCsv)
           \/ WordAt(n, Len(n) - 3, DotTsv)
        /\ ~\E i \in 1..Len(n) : WordAt(n, i, Tail(Kaannokset))
        /\ ~\E i \in 1..Len(n) :
               WordAt(n, i, <<"t", "r", "a", "n", "s", "l", "a", "t", "i", "o", "n">>)

\* The elements of the sequence with the number of times each occurs.
SeqToBag(seq) ==
    [x \in {seq[i] : i \in 1..Len(seq)} |-> Cardinality({i \in 1..Len(seq) : seq[i] = x})]

\* C18: filterResources returns, each as often as the descriptor lists it,
\* exactly the resources whose name starts with th_data_, whose format or
\* name extension is csv or tsv and whose name has no translation marker
\* (letters compared in whatever case); th_data_2023.csv is kept and
\* th_data_2023_kaannokset.csv is dropped.
C18_FilterKeepsDataFiles ==
    output # Null =>
        LET listed == {input.dataset.resources[i] : i \in 1..Len(input.dataset.resources)}
            kept == {output.filtered[i] : i \in 1..Len(output.filtered)}
        IN  /\ SeqToBag(output.filtered) =
                   SeqToBag(SelectSeq(input.dataset.resources, IsDataFileNotTranslation))
            /\ Cat2023 \in listed => Cat2023 \in kept
            /\ CatKaannokset \notin kept

\* Of th_data_2023.csv and th_data_2023_kaannokset.csv only the first was
\* returned.
C18_Witness ==
    /\ output # Null
    /\ input.dataset.resources = <<CatKaannokset, Cat2023>>
    /\ output.filtered = <<Cat2023>>

----------------------------------------------------------------------------
(* C19 *)

\* C19: the years of the sequence filterResources returns never increase
\* (a name without a year counting as year 0), and the resources of one
\* extracted year are in the order the descriptor lists them in.
C19_NewestFirstStable ==
    output # Null =>
        LET f == output.filtered
            kept == {f[i] : i \in 1..Len(f)}
            yr(r) == extractYearFromFilename(r.name)
        IN  /\ \A i, j \in 1..Len(f) :
                  i < j => ToNumber(yr(f[i])) >= ToNumber(yr(f[j]))
            /\ \A y \in {yr(r) : r \in kept} :
                  SelectSeq(f, LAMBDA r : yr(r) = y) =
                  SelectSeq(input.dataset.resources,
                            LAMBDA r : r \in kept /\ yr(r) = y)

\* Two resources of 2023 listed before one of 2024 were returned after it,
\* in the order they were listed in.
C19_Witness ==
    /\ output # Null
    /\ input.dataset.resources = <<Cat2023Again, Cat2023, Cat2024>>
    /\ output.filtered = <<Cat2024, Cat2023Again, Cat2023>>

----------------------------------------------------------------------------
(* C20 *)

\* C20: --years=2024 gives the years {2024} and --years=2023, 2024 the
\* years {2023, 2024}, and without the argument no years are given; when
\* years are given, the resources selected are the filtered resources
\* whose extracted year is one of them, in their order, none of them
\* without a year; when none are given, all filtered resources are
\* selected.
C20_SelectedByYear ==
    output # Null =>
        LET given == IF output.years = Null THEN {}
                     ELSE {output.years.array[i] : i \in 1..Len(output.years.array)}
            yr(r) == extractYearFromFilename(r.name)
        IN  /\ input.yearArg = Undefined => output.years = Null
            /\ input.yearArg = Arg2024 => given = {Num(2024)}
            /\ input.yearArg = Arg2023And2024 => given = {Num(2023), Num(2024)}
            /\ IF given # {}
               THEN output.selected =
                        SelectSeq(output.filtered,
                                  LAMBDA r : yr(r) # Null /\ yr(r) \in given)
               ELSE output.selected = output.filtered

\* With --years=2024, of the resources of 2024, of 2023 and without a year
\* only the one of 2024 was selected.
C20_Witness ==
    /\ output # Null
    /\ input.yearArg = Arg2024
    /\ output.filtered = <<Cat2024, Cat2023, CatNoYear>>
    /\ output.selected = <<Cat2024>>

----------------------------------------------------------------------------
(* C21 *)

\* C21: no invoice row has a null data year; and a run that reached its
\* import phase with a resource whose name yields no year among its
\* downloads ends with status 0, with a result for every download.
C21_NullYearUnusableNotFatal ==
    /\ \A t \in BagToSet(invoices) : t.data_year # Null
    /\ (/\ phase = "exited"
        /\ ImportPhaseReached
        /\ \E i \in 1..Len(downloadResults) :
              extractYearFromFilename(downloadResults[i].resource.name) = Null)
          => /\ exitCode = Num(0)
             /\ Len(importResults) = Len(downloadResults)

----------------------------------------------------------------------------
(* C22 *)

\* C22: every row of the invoice table that the table did not hold when the
\* current import began carries the year of the name of the import's
\* resource (2023 for th_data_2023.csv, 2024 for th_data_2024.tsv), also
\* when the record has a year column of its own.
C22_RowsCarryResourceYear ==
    \A t \in BagToSet(invoices) :
        t \notin BagToSet(before) =>
            /\ t.data_year = extractYearFromFilename(resource.name)
            /\ resource = Res2023 => t.data_year = Num(2023)
            /\ resource = Res2024 => t.data_year = Num(2024)

C22_Witness ==
    /\ pc = "resolved"
    /\ resource = Res2024
    /\ \E i \in 1..Len(file) : file[i] = RecA1 /\ RecA1.data_year = Str("1999")
    /\ \E t \in BagToSet(invoices) :
          /\ t \notin BagToSet(before)
          /\ t.lasku_id = Str("A")
          /\ t.toimittaja_nimi = Str("S1")
          /\ t.data_year = Num(2024)

----------------------------------------------------------------------------
(* C23 *)

\* The number of records in the flushes of a log that succeeded.
RECURSIVE CommittedCount(_)
CommittedCount(log) ==
    IF log = <<>> THEN 0
    ELSE (IF Head(log).ok THEN Len(Head(log).batch) ELSE 0) + CommittedCount(Tail(log))

\* C23: when an import has resolved, the recordCount it returns and the
\* records_imported of the ledger row of its resource are the number of
\* accepted records in the batches whose flush succeeded.
C23_CountIsCommitted ==
    pc = "resolved" =>
        /\ outcome.recordCount = CommittedCount(flushes)
        /\ LedgerRowsOf(ledger, resource.id) # {}
        /\ \A t \in LedgerRowsOf(ledger, resource.id) :
              t.records_imported = Num(CommittedCount(flushes))

----------------------------------------------------------------------------
(* C24 *)

\* C24: in a run, a step that adds a download result adds one, for the
\* next resource of the selection in its order, in the download phase with
\* no import begun; a step that makes a request or writes a file is no
\* step of the import phase; a step that starts an import is a step of the
\* import phase with no import in progress, every selected resource
\* having its download result, and the import is that of the next
\* download result without an import result; a step that adds an import
\* result adds one, for that download, and leaves no import in progress.
C24_PhasedAndSequential ==
    [][/\ Len(downloadResults') > Len(downloadResults) =>
             /\ phase = "downloading" /\ phase' = "downloading"
             /\ pc = "idle" /\ file = <<>> /\ importResults = <<>>
             /\ downloadResults' # <<>>
             /\ SubSeq(downloadResults', 1, Len(downloadResults') - 1) = downloadResults
             /\ downloadResults'[Len(downloadResults')].resource =
                    resourcesToDownload[Len(downloadResults')]
       /\ (requests' # requests \/ disk' # disk) =>
             /\ phase # "importing"
             /\ pc' = "idle"
       /\ (pc # "streaming" /\ pc' = "streaming") =>
             /\ phase = "importing" /\ phase' = "importing"
             /\ pc = "idle"
             /\ Len(downloadResults) = Len(resourcesToDownload)
             /\ \A i \in 1..Len(downloadResults) :
                   downloadResults[i].resource = resourcesToDownload[i]
             /\ Len(importResults) < Len(downloadResults)
             /\ resource' = downloadResults[Len(importResults) + 1].resource
             /\ UNCHANGED <<downloadResults, importResults, requests, disk>>
       /\ Len(importResults') > Len(importResults) =>
             /\ pc # "streaming" /\ pc' = "idle"
             /\ importResults' # <<>>
             /\ SubSeq(importResults', 1, Len(importResults') - 1) = importResults
             /\ importResults'[Len(importResults')].filename =
                    downloadResults[Len(importResults')].resource.name
      ]_vars

C24_Witness ==
    /\ phase = "importing"
    /\ pc = "streaming"
    /\ Len(resourcesToDownload) = 2
    /\ Len(downloadResults) = 2
    /\ Len(importResults) = 1
    /\ resource = downloadResults[2].resource
    /\ importResults[1].filename = downloadResults[1].resource.name
    /\ file # <<>>

----------------------------------------------------------------------------
(* C25 *)

\* A table after all the upserts of a batch: for every identifier of the
\* batch, the row of the batch's last record with it.
UpsertedWhole(table, batch) ==
    LET ids == {batch[i].lasku_id : i \in 1..Len(batch)}
        keep == {t \in BagToSet(table) : t.lasku_id \notin ids}
        LastOf(id) ==
            batch[CHOOSE i \in 1..Len(batch) :
                      /\ batch[i].lasku_id = id
                      /\ \A j \in (i + 1)..Len(batch) : batch[j].lasku_id # id]
    IN  [t \in keep |-> table[t]] (+) SetToBag({StoredForm(LastOf(id)) : id \in ids})

\* A table after the batches of a log, each applied whole when its flush
\* succeeded and not at all when it failed.
RECURSIVE WholeBatches(_, _)
WholeBatches(table, log) ==
    IF log = <<>> THEN table
    ELSE WholeBatches(IF Head(log).ok THEN UpsertedWhole(table, Head(log).batch)
                      ELSE table,
                      Tail(log))

\* C25: in every state, so whenever a query reads, during an import as
\* well, the invoice table is the table the import began with and, one
\* after the other, all the upserts of each batch flushed with success so
\* far; of a batch whose flush failed and of the records still in the
\* buffer it shows nothing.
C25_ReadsSeeWholeBatches ==
    invoices = WholeBatches(before, flushes)

C25_Witness ==
    /\ pc = "streaming"
    /\ flushes # <<>>
    /\ flushes[1].ok
    /\ records # <<>>
    /\ invoices # before
    /\ \A i \in 1..Len(records) : RowsOf(invoices, records[i].lasku_id) = {}
    /\ ENABLED Query

----------------------------------------------------------------------------
(* C26 *)

\* The record has a non-empty value in the column.
NonEmpty(record, column) ==
    column \in DOMAIN record /\ record[column] \notin {Str(""), Chars(<<>>)}

\* The first match over the primary column, then the alias column, else
\* the default.
FirstMatch(record, f, default) ==
    IF NonEmpty(record, f.primary) THEN record[f.primary]
    ELSE IF NonEmpty(record, f.alias) THEN record[f.alias]
    ELSE default

\* C26: every canonical field of the invoice built from a record is the
\* value of the field's primary column when that is non-empty, otherwise
\* the value of its alias column when that is non-empty, otherwise the
\* default: the empty string for lasku_id, hankintayksikko,
\* hankintakategoria and tositepvm, with which the record is not valid,
\* and null for the optional fields; the amount is the number parsed from
\* the text found in the same way, '0' when there is none.
C26_FirstMatchOverColumnPair ==
    output # Null =>
        /\ \A f \in CanonicalFields :
              LET field == output.invoice[f.field]
              IN  CASE f.kind = "required" ->
                         /\ field = FirstMatch(input.record, f, Str(""))
                         /\ field = Str("") => ~output.valid
                    [] f.kind = "optional" ->
                         field = FirstMatch(input.record, f, Null)
                    [] f.kind = "amount" ->
                         field = parseFloat(FirstMatch(input.record, f, Chars(<<"0">>)))
        /\ output.valid =
              \A f \in CanonicalFields :
                  f.kind = "required" =>
                      NonEmpty(input.record, f.primary) \/ NonEmpty(input.record, f.alias)

C26_Witness ==
    /\ output # Null
    /\ "invoice_id" \in DOMAIN input.record
    /\ "lasku_id" \in DOMAIN input.record
    /\ input.record.lasku_id = Str("")
    /\ output.invoice.lasku_id = Str("alias")
    /\ output.invoice.sektori = Null
    /\ output.valid

----------------------------------------------------------------------------
(* C27 *)

\* C27: the promise of importCSVFile is pending while the stream runs and
\* is settled once the stream has ended or failed, the final flush having
\* failed or not: resolved with the counts after the end, rejected with the
\* error after a parser error.
C27_SettlesOnEndOrError ==
    /\ pc = "streaming" => outcome = Pending
    /\ file # <<>> /\ pc # "streaming" =>
          /\ outcome # Pending
          /\ pc \in {"resolved", "rejected"}
          /\ pc = "resolved" => DOMAIN outcome = {"recordCount", "errorCount"}
          /\ pc = "rejected" => DOMAIN outcome = {"error"}

----------------------------------------------------------------------------
(* C28 *)

\* C28: during an import and after it, recordCount + errorCount is the
\* number of records the parser has delivered, and recordCount is the
\* number of those that passed the validation.
C28_EveryRecordCountedOnce ==
    pc # "idle" =>
        /\ recordCount + errorCount = Len(file)
        /\ recordCount = Len(AcceptedInvoices(file, Year))

----------------------------------------------------------------------------
(* C29 *)

\* C29: when an import has resolved, for every identifier of an accepted
\* record of the file the invoice table holds one row, the row of the last
\* accepted record of the file with that identifier; so the rows with the
\* file's identifiers are as many as the distinct identifiers, which are
\* at most recordCount.
C29_LastDuplicateInFileWins ==
    pc = "resolved" =>
        LET acc == AcceptedInvoices(file, Year)
            ids == {acc[i].lasku_id : i \in 1..Len(acc)}
            LastOf(id) ==
                acc[CHOOSE i \in 1..Len(acc) :
                        /\ acc[i].lasku_id = id
                        /\ \A j \in (i + 1)..Len(acc) : acc[j].lasku_id # id]
            rows == {t \in BagToSet(invoices) : t.lasku_id \in ids}
        IN  /\ \A id \in ids :
                  /\ RowsOf(invoices, id) = {StoredForm(LastOf(id))}
                  /\ invoices[StoredForm(LastOf(id))] = 1
            /\ Cardinality(rows) = Cardinality(ids)
            /\ Cardinality(ids) <= outcome.recordCount

----------------------------------------------------------------------------
(* C30 *)

\* C30: a run with the clear flag that has ended because the fetch of the
\* catalog or a download failed has status 1 and leaves the invoice table
\* and the ledger empty, whatever the invoice table held before the run.
C30_WipeNotUndone ==
    (/\ phase = "exited"
     /\ options.clearExisting
     /\ \/ dataset = Null
        \/ Len(downloadResults) < Len(resourcesToDownload))
      => /\ exitCode = Num(1)
         /\ invoices = EmptyBag
         /\ ledger = EmptyBag

\* A run with the clear flag over a table that held rows has ended with a
\* failed download after a download that succeeded.
C30_Witness ==
    /\ phase = "exited"
    /\ options.clearExisting
    /\ dataset # Null
    /\ downloadResults # <<>>
    /\ Len(downloadResults) < Len(resourcesToDownload)
    /\ beforeRun # EmptyBag
    /\ exitCode = Num(1)
    /\ invoices = EmptyBag
    /\ ledger = EmptyBag

====
